---- MODULE Spec2Model ----
(***************************************************************************)
(* connector8: the Backend registry of ConnectorUnit classes               *)
(* (backend.py) and the lookup of a service class for a base class and a   *)
(* model name, with replacement edges, module availability and the         *)
(* fallback to the parent backend; the lookup of a backend by name and     *)
(* version; the Event (event.py) with its consumers by model name.         *)
(***************************************************************************)
EXTENDS Integers, Sequences, FiniteSets, TLC

\* ------------------------------------------------------------------ bounds

\* Backends constructed in one run.
MaxBackends == 3
\* Entries registered in one run, over all the backends.
MaxEntries == 3
\* Classes one register_service_class call names in `replacing`.
MaxReplacing == 2
\* Backends and entries created in one run, together.
MaxObjects == 5

\* ------------------------------------------------- the ConnectorUnit classes

None == "None"

\* The root of the class hierarchy; never registered itself.
ConnectorUnit == "ConnectorUnit"

\* The classes of the run: each has its superclasses (itself included), its
\* _model_name and the Odoo module that defines it (odoo_module_name).
Classes == {"LambdaUnit", "LambdaNoUnit", "LambdaYesUnit", "LambdaPartnerUnit"}

Modules == {"connector8", "addon_a", "addon_b"}

\* The modules that are installed and uninstalled during the run; connector8,
\* the framework itself, stays installed.
Addons == {"addon_a", "addon_b"}

ModelNames == {"res.users", "res.partner"}

mro(cls) ==
    CASE cls = "LambdaUnit"        -> {"LambdaUnit", ConnectorUnit}
      [] cls = "LambdaNoUnit"      -> {"LambdaNoUnit", "LambdaUnit", ConnectorUnit}
      [] cls = "LambdaYesUnit"     -> {"LambdaYesUnit", "LambdaUnit", ConnectorUnit}
      [] cls = "LambdaPartnerUnit" -> {"LambdaPartnerUnit", "LambdaUnit", ConnectorUnit}
      [] OTHER                     -> {cls}

\* MetaConnectorUnit.model_name: _model_name as a collection.
model_name_of(cls) ==
    IF cls = "LambdaPartnerUnit" THEN {"res.partner"} ELSE {"res.users"}

\* cls.__module__, split at the dots: where the class is defined.
module_path(cls) ==
    CASE cls = "LambdaNoUnit"  -> <<"openerp", "addons", "addon_a", "unit">>
      [] cls = "LambdaYesUnit" -> <<"addon_b", "unit">>
      [] OTHER -> <<"openerp", "addons", "connector8", "tests", "test_backend">>

\* utility.get_odoo_module_name
get_odoo_module_name(module_parts) ==
    IF Len(module_parts) > 2 /\ SubSeq(module_parts, 1, 2) = <<"openerp", "addons">>
    THEN module_parts[3]
    ELSE module_parts[1]

\* MetaConnectorUnit.__init__: cls.odoo_module_name.
odoo_module_name(cls) == get_odoo_module_name(module_path(cls))

issubclass(cls, base_class) == base_class \in mro(cls)

\* ConnectorUnit.match
match_model(cls, model) == model \in model_name_of(cls)

\* ------------------------------------------------------------------- state

VARIABLES
    backends,   \* every Backend constructed: <<[name, version, parent, class_entries]>>
    registry,   \* Backend._backend_registry: the backends (by index) it holds
    installed,  \* the Odoo modules whose '<module>.installed' model is in the pool
    ret,        \* what the last call returned or raised, and the calls it made
    consumers,  \* Event._consumers: model name (or None) -> set of consumers
    pc          \* the call of register_service_class or subscribe that has
                \* begun and not returned yet, and the statement it is at

vars == <<backends, registry, installed, ret, consumers, pc>>

\* The state of the event.
event_vars == <<consumers>>

BackendIds == 1..Len(backends)

\* No call of register_service_class or subscribe is under way.
Idle == [op |-> "None"]

\* _ConnectorUnitEntry
ConnectorUnitEntry(service_class, replaced_by) ==
    [service_class |-> service_class, replaced_by |-> replaced_by]

\* The classes registered on a backend, in registration order.
registered_classes(b) ==
    [i \in DOMAIN backends[b].class_entries |->
        backends[b].class_entries[i].service_class]

\* The entry of a class in a backend (an entry in replaced_by is the very
\* object held by class_entries: it is found there by its class). An entry in
\* a replaced_by that class_entries does not hold yet is the entry that a
\* register_service_class under way has built, with replaced_by=[].
entry_of(b, cls) ==
    LET es == backends[b].class_entries
    IN IF \E i \in DOMAIN es : es[i].service_class = cls
       THEN es[CHOOSE i \in DOMAIN es : es[i].service_class = cls]
       ELSE ConnectorUnitEntry(cls, <<>>)

TotalEntries ==
    LET RECURSIVE sum(_)
        sum(b) == IF b = 0 THEN 0 ELSE Len(backends[b].class_entries) + sum(b - 1)
    IN sum(Len(backends))

\* --------------------------------------------------------------- resolution

\* is_module_installed that takes every module for installed.
is_module_installed_always(module) == TRUE

\* session.is_module_installed / utility.is_module_installed
is_module_installed(module) == module \in installed

\* _add_candidate that does not look at the model name.
add_candidate_any_model(entry, base_class, model_name) ==
    LET service_class == entry.service_class
        is_installed == is_module_installed(odoo_module_name(service_class))
        is_subclass == issubclass(service_class, base_class)
    IN IF is_installed /\ is_subclass THEN {service_class} ELSE {}

\* Backend._add_candidate: the classes the entry adds to the candidates.
add_candidate(entry, base_class, model_name) ==
    LET service_class == entry.service_class
        is_installed == is_module_installed(odoo_module_name(service_class))
        is_subclass == issubclass(service_class, base_class)
        is_model_matched == match_model(service_class, model_name)
    IN IF is_installed /\ is_subclass /\ is_model_matched
       THEN {service_class} ELSE {}

\* follow_replacing that never looks at replaced_by.
follow_replacing_unfollowed(b, entries, base_class, model_name) ==
    UNION { add_candidate(entry_of(b, entries[i]), base_class, model_name)
          : i \in DOMAIN entries }

\* follow_replacing that looks at the entries of replaced_by, but not at what
\* replaces them in turn.
follow_replacing_one_level(b, entries, base_class, model_name) ==
    UNION { LET entry == entry_of(b, entries[i])
                replacings ==
                    UNION { add_candidate(entry_of(b, entry.replaced_by[j]),
                                          base_class, model_name)
                          : j \in DOMAIN entry.replaced_by }
            IN IF replacings # {}
               THEN replacings
               ELSE add_candidate(entry, base_class, model_name)
          : i \in DOMAIN entries }

RECURSIVE follow_replacing(_, _, _, _)
\* follow_replacing of Backend._get_classes, over the entries (of backend b)
\* of the classes in the sequence `entries`.
follow_replacing(b, entries, base_class, model_name) ==
    UNION { LET entry == entry_of(b, entries[i])
                replacings ==
                    IF entry.replaced_by # <<>>
                    THEN follow_replacing(b, entry.replaced_by, base_class, model_name)
                    ELSE {}
            IN IF replacings # {}
               THEN replacings
               ELSE add_candidate(entry, base_class, model_name)
          : i \in DOMAIN entries }

local_classes(b, base_class, model_name) ==
    follow_replacing(b, registered_classes(b), base_class, model_name)

\* _get_classes that never asks the parent.
get_classes_local(b, base_class, model_name) ==
    local_classes(b, base_class, model_name)

\* _get_classes that adds the parent's classes to the local ones.
RECURSIVE get_classes_merged(_, _, _)
get_classes_merged(b, base_class, model_name) ==
    local_classes(b, base_class, model_name) \cup
        IF backends[b].parent # 0
        THEN get_classes_merged(backends[b].parent, base_class, model_name)
        ELSE {}

RECURSIVE get_classes(_, _, _)
\* Backend._get_classes
get_classes(b, base_class, model_name) ==
    LET matching_classes == local_classes(b, base_class, model_name)
    IN IF matching_classes = {} /\ backends[b].parent # 0
       THEN get_classes(backends[b].parent, base_class, model_name)
       ELSE matching_classes

\* get_service_class that returns one of several matching classes.
get_service_class_any(b, base_class, model_name) ==
    LET matching_classes == get_classes(b, base_class, model_name)
    IN IF matching_classes = {}
       THEN [kind |-> None, value |-> None]
       ELSE [kind |-> "class", value |-> CHOOSE c \in matching_classes : TRUE]

\* get_service_class that returns None unless exactly one class matches.
get_service_class_or_none(b, base_class, model_name) ==
    LET matching_classes == get_classes(b, base_class, model_name)
    IN IF Cardinality(matching_classes) = 1
       THEN [kind |-> "class", value |-> CHOOSE c \in matching_classes : TRUE]
       ELSE [kind |-> None, value |-> None]

\* Backend.get_service_class: the class returned, None, or the error raised.
get_service_class(b, base_class, model_name) ==
    LET matching_classes == get_classes(b, base_class, model_name)
    IN IF Cardinality(matching_classes) = 1
       THEN [kind |-> "class", value |-> CHOOSE c \in matching_classes : TRUE]
       ELSE IF matching_classes = {}
       THEN [kind |-> None, value |-> None]
       ELSE [kind |-> "ConnectorUnitError", value |-> None]

\* ----------------------------------------------------------------- actions

Names == {"magento"}
Versions == {None}

\* What Backend(name, version, parent) gives: the backend built (its index in
\* backends) or the error raised.
Constructed(name, version, parent, kind, value) ==
    [op |-> "Backend", name |-> name, version |-> version, parent |-> parent,
     result |-> [kind |-> kind, value |-> value]]

\* Backend.__init__ that leaves the new backend out of _backend_registry.
Backend_init_unregistered(name, version, parent) ==
    /\ Len(backends) < MaxBackends
    /\ Len(backends) + TotalEntries < MaxObjects
    /\ IF name = None /\ parent = 0
       THEN /\ ret' = Constructed(name, version, parent, "ValueError", 0)
            /\ UNCHANGED <<backends, registry, installed, event_vars, pc>>
       ELSE /\ backends' = Append(backends,
                [name |-> IF name # None THEN name ELSE backends[parent].name,
                 version |-> version,
                 parent |-> parent,
                 class_entries |-> <<>>])
            /\ ret' = Constructed(name, version, parent, "Backend",
                                  Len(backends) + 1)
            /\ UNCHANGED <<registry, installed, event_vars, pc>>

\* Backend.__init__; parent = 0 is no parent (None).
Backend_init(name, version, parent) ==
    /\ Len(backends) < MaxBackends
    /\ Len(backends) + TotalEntries < MaxObjects
    /\ IF name = None /\ parent = 0
       THEN /\ ret' = Constructed(name, version, parent, "ValueError", 0)
            /\ UNCHANGED <<backends, registry, installed, event_vars, pc>>
       ELSE /\ backends' = Append(backends,
                [name |-> IF name # None THEN name ELSE backends[parent].name,
                 version |-> version,
                 parent |-> parent,
                 class_entries |-> <<>>])
            /\ registry' = registry \cup {Len(backends) + 1}
            /\ ret' = Constructed(name, version, parent, "Backend",
                                  Len(backends) + 1)
            /\ UNCHANGED <<installed, event_vars, pc>>

\* Backend._clear_backend_registry
clear_backend_registry ==
    /\ registry # {}
    /\ registry' = {}
    /\ ret' = [op |-> "_clear_backend_registry", result |-> None]
    /\ UNCHANGED <<backends, installed, event_vars, pc>>

\* Backend.match that does not look at the version.
match_name_only(b, name, version) == backends[b].name = name

\* Backend.match
match(b, name, version) ==
    backends[b].name = name /\ backends[b].version = version

\* Backend.get_backend: what it may return. The loop is over a set, whose
\* order of iteration is not specified: the first backend that matches is any
\* of those that match. A backend is its index in backends; 0 is None.
get_backend(name, version, default) ==
    LET matching == {b \in registry : match(b, name, version)}
    IN IF matching # {} THEN matching ELSE {default}

\* Backend.get_backend, called.
call_get_backend(name, version, default) ==
    /\ \E backend \in get_backend(name, version, default) :
          ret' = [op |-> "get_backend", name |-> name, version |-> version,
                  default |-> default, result |-> backend]
    /\ UNCHANGED <<backends, registry, installed, event_vars, pc>>

\* _register_replace that stops after the first class of `replacing` it finds.
register_replace_first_only(class_entries, replacing, cls) ==
    LET found == {i \in DOMAIN class_entries :
                     class_entries[i].service_class \in replacing}
    IN [i \in DOMAIN class_entries |->
           IF i \in found /\ \A j \in found : i <= j
           THEN [class_entries[i] EXCEPT !.replaced_by = Append(@, cls)]
           ELSE class_entries[i]]

\* _register_replace that makes an entry, replaced by `cls`, for each class
\* named that the backend does not hold.
register_replace_adding_missing(class_entries, replacing, cls) ==
    LET held == {class_entries[i].service_class : i \in DOMAIN class_entries}
        missing == replacing \ (held \cup {cls})
        added == [i \in DOMAIN class_entries |->
                     IF class_entries[i].service_class \in replacing
                     THEN [class_entries[i] EXCEPT !.replaced_by = Append(@, cls)]
                     ELSE class_entries[i]]
    IN IF missing = {}
       THEN added
       ELSE Append(added, [service_class |-> CHOOSE c \in missing : TRUE,
                           replaced_by |-> <<cls>>])

\* Backend._register_replace: the entries after the new entry (of `cls`) has
\* been appended to the replaced_by of the first entry of each class named.
register_replace(class_entries, replacing, cls) ==
    [i \in DOMAIN class_entries |->
        LET replaced_entry == class_entries[i]
            first == \A j \in 1..(i - 1) :
                        class_entries[j].service_class # replaced_entry.service_class
        IN IF replaced_entry.service_class \in replacing /\ first
           THEN [replaced_entry EXCEPT !.replaced_by = Append(@, cls)]
           ELSE replaced_entry]

\* register_service_class that registers a class again when it is registered.
register_entries_again(class_entries, service_class, replacing) ==
    Append(register_replace(class_entries, replacing, service_class),
           ConnectorUnitEntry(service_class, <<>>))

\* register_service_class that appends the entry before it adds it to the
\* replaced_by of the classes named.
register_entries_append_first(class_entries, service_class, replacing) ==
    LET is_new == \A i \in DOMAIN class_entries :
                     class_entries[i].service_class # service_class
    IN IF ~is_new
       THEN class_entries
       ELSE register_replace(
                Append(class_entries, ConnectorUnitEntry(service_class, <<>>)),
                replacing, service_class)

\* register_service_class that adds a class that is registered to the
\* replaced_by of the classes named.
register_entries_replace_registered(class_entries, service_class, replacing) ==
    LET is_new == \A i \in DOMAIN class_entries :
                     class_entries[i].service_class # service_class
    IN IF ~is_new
       THEN register_replace(class_entries, replacing, service_class)
       ELSE Append(register_replace(class_entries, replacing, service_class),
                   ConnectorUnitEntry(service_class, <<>>))

\* Backend.register_service_class, on the entries of the backend: the entries
\* it leaves. `replacing` is the set of the classes named ({} for None or an
\* empty container, {c} for one class).
register_entries(class_entries, service_class, replacing) ==
    LET is_new == \A i \in DOMAIN class_entries :
                     class_entries[i].service_class # service_class
    IN IF ~is_new
       THEN class_entries
       ELSE Append(register_replace(class_entries, replacing, service_class),
                   ConnectorUnitEntry(service_class, <<>>))

\* The run has room for the entries the call adds.
HasRoomFor(class_entries, registered) ==
    Len(registered) > Len(class_entries) =>
        /\ TotalEntries < MaxEntries
        /\ Len(backends) + TotalEntries < MaxObjects

\* Backend.register_service_class, called on backend b.
register_service_class(b, service_class, replacing) ==
    /\ b \in BackendIds
    /\ LET class_entries == backends[b].class_entries
           registered == register_entries(class_entries, service_class, replacing)
       IN /\ HasRoomFor(class_entries, registered)
          /\ backends' = [backends EXCEPT ![b].class_entries = registered]
    /\ ret' = [op |-> "register_service_class", result |-> None]
    /\ UNCHANGED <<registry, installed, event_vars, pc>>

\* The decorator that also looks in the parent backend for the classes named
\* in `replacing` that the backend does not hold.
Backend_call_up_the_chain(b, service_class, replacing) ==
    /\ b \in BackendIds
    /\ LET class_entries == backends[b].class_entries
           registered == register_entries(class_entries, service_class, replacing)
           parent == backends[b].parent
           local == {class_entries[i].service_class : i \in DOMAIN class_entries}
       IN /\ HasRoomFor(class_entries, registered)
          /\ backends' =
                IF parent # 0 /\ registered # class_entries
                THEN [backends EXCEPT
                        ![b].class_entries = registered,
                        ![parent].class_entries =
                            register_replace(@, replacing \ local, service_class)]
                ELSE [backends EXCEPT ![b].class_entries = registered]
    /\ ret' = [op |-> "__call__", backend |-> b, replacing |-> replacing,
               result |-> service_class]
    /\ UNCHANGED <<registry, installed, event_vars, pc>>

\* Backend.__call__, the backend used as a decorator of service_class, bare
\* (replacing = {}) or as backend(replacing=...): it registers the class and
\* returns it.
Backend_call(b, service_class, replacing) ==
    /\ b \in BackendIds
    /\ LET class_entries == backends[b].class_entries
           registered == register_entries(class_entries, service_class, replacing)
       IN /\ HasRoomFor(class_entries, registered)
          /\ backends' = [backends EXCEPT ![b].class_entries = registered]
    /\ ret' = [op |-> "__call__", backend |-> b, replacing |-> replacing,
               result |-> service_class]
    /\ UNCHANGED <<registry, installed, event_vars, pc>>

\* The exception of the lookup of an attribute that the object, its class and
\* the bases of its class do not define.
AttributeError(name) == [error |-> "AttributeError", raised_by |-> name]

\* backend.remove_service_class(service_class), as tests/test_backend.py calls
\* it: class Backend defines no remove_service_class (and no __getattr__), so
\* the lookup of the attribute raises AttributeError and the backend is left
\* as it is. ret.removed holds the classes of this call and of the calls of
\* remove_service_class on the same backend right before it.
remove_service_class(b, service_class) ==
    /\ b \in BackendIds
    /\ ret' = [op |-> "remove_service_class", backend |-> b,
               service_class |-> service_class,
               removed |-> IF ret.op = "remove_service_class" /\ ret.backend = b
                           THEN ret.removed \cup {service_class}
                           ELSE {service_class},
               raised |-> AttributeError("remove_service_class"),
               result |-> None]
    /\ UNCHANGED <<backends, registry, installed, event_vars, pc>>

\* get_service_class that empties the entries of the backend it looks in.
call_get_service_class_consuming(b, base_class, model_name) ==
    /\ b \in BackendIds
    /\ ret' = [op |-> "get_service_class", backend |-> b,
               base_class |-> base_class, model_name |-> model_name,
               result |-> get_service_class(b, base_class, model_name)]
    /\ backends' = [backends EXCEPT ![b].class_entries = <<>>]
    /\ UNCHANGED <<registry, installed, event_vars, pc>>

\* Backend.get_service_class, called.
call_get_service_class(b, base_class, model_name) ==
    /\ b \in BackendIds
    /\ ret' = [op |-> "get_service_class", backend |-> b,
               base_class |-> base_class, model_name |-> model_name,
               result |-> get_service_class(b, base_class, model_name)]
    /\ UNCHANGED <<backends, registry, installed, event_vars, pc>>

\* utility.install_in_connector: the module's '.installed' model enters the pool.
install_module(module) ==
    /\ module \notin installed
    /\ installed' = installed \cup {module}
    /\ ret' = [op |-> "install_module", result |-> None]
    /\ UNCHANGED <<backends, registry, event_vars, pc>>

\* The module is uninstalled: its '.installed' model leaves the pool.
uninstall_module(module) ==
    /\ module \in installed
    /\ installed' = installed \ {module}
    /\ ret' = [op |-> "uninstall_module", result |-> None]
    /\ UNCHANGED <<backends, registry, event_vars, pc>>

\* -------------------------------------------------------------- the event

\* The consumers: functions, each defined in a module.
Consumers == {"consumer_core", "consumer_a", "consumer_b"}

\* consumer.__module__, split at the dots.
consumer_module_path(consumer) ==
    CASE consumer = "consumer_a" -> <<"openerp", "addons", "addon_a", "consumers">>
      [] consumer = "consumer_b" -> <<"openerp", "addons", "addon_b", "consumers">>
      [] OTHER -> <<"openerp", "addons", "connector8", "event">>

\* The events of the module: on_record_write, on_record_create and
\* on_record_unlink, each an Event() of its own.
Events == {"on_record_write", "on_record_create", "on_record_unlink"}

\* The session and the arguments an event is fired with.
Session == "session"
Payloads == {<<42>>, <<7, 8>>}

\* The Odoo module of a consumer, as utility.is_module_installed finds it.
consumer_odoo_module_name(consumer) ==
    get_odoo_module_name(consumer_module_path(consumer))

\* Event.__init__: self._consumers = {None: set()}
Event_init == (None :> {})

\* _consumers.get that gives the consumers of every name.
consumers_get_any(event, name) ==
    UNION {consumers[event][n] : n \in DOMAIN consumers[event]}

\* self._consumers.get(name, set())
consumers_get(event, name) ==
    IF name \in DOMAIN consumers[event] THEN consumers[event][name] ELSE {}

\* unsubscribe that makes an empty set for a name the dictionary does not hold.
discard_setdefault(dict, consumer, model_names) ==
    [name \in DOMAIN dict \cup model_names |->
        IF name \in DOMAIN dict THEN dict[name] \ {consumer} ELSE {}]

\* The loop of Event.unsubscribe over the names: the dictionary it leaves.
discard(dict, consumer, model_names) ==
    [name \in DOMAIN dict |->
        IF name \in model_names THEN dict[name] \ {consumer} ELSE dict[name]]

\* The loop of Event.subscribe over the names: the dictionary it leaves.
setdefault_add(dict, consumer, model_names) ==
    [name \in DOMAIN dict \cup model_names |->
        (IF name \in DOMAIN dict THEN dict[name] ELSE {})
            \cup (IF name \in model_names THEN {consumer} ELSE {})]

\* subscribe that adds the consumer and leaves `replacing` where it is.
subscribed_keeping(dict, consumer, model_names, replacing) ==
    setdefault_add(dict, consumer, model_names)

\* subscribe that removes `replacing` from every name of the dictionary.
subscribed_replacing_everywhere(dict, consumer, model_names, replacing) ==
    setdefault_add(
        IF replacing # None THEN discard(dict, replacing, DOMAIN dict) ELSE dict,
        consumer, model_names)

\* Event.subscribe, on the dictionary of the event: the dictionary it leaves.
\* model_names is the set of the names given ({None} for None, {name} for one
\* name), replacing a consumer or None.
subscribed(dict, consumer, model_names, replacing) ==
    setdefault_add(
        IF replacing # None THEN discard(dict, replacing, model_names) ELSE dict,
        consumer, model_names)

\* subscribe that subscribes the consumer on every event.
subscribe_every_event(event, consumer, model_names, replacing) ==
    /\ consumers' = [e \in DOMAIN consumers |->
                        subscribed(consumers[e], consumer, model_names, replacing)]
    /\ ret' = [op |-> "subscribe", event |-> event, consumer |-> consumer,
               model_names |-> model_names, replacing |-> replacing,
               replaced |-> {name \in model_names :
                               replacing \in consumers_get(event, name)},
               result |-> None]
    /\ UNCHANGED <<backends, registry, installed, pc>>

\* Event.subscribe, called on an event. ret.replaced holds the names that
\* the call found `replacing` subscribed for, and removed it from.
subscribe(event, consumer, model_names, replacing) ==
    /\ consumers' = [consumers EXCEPT ![event] =
                        subscribed(@, consumer, model_names, replacing)]
    /\ ret' = [op |-> "subscribe", event |-> event, consumer |-> consumer,
               model_names |-> model_names, replacing |-> replacing,
               replaced |-> {name \in model_names :
                               replacing \in consumers_get(event, name)},
               result |-> None]
    /\ UNCHANGED <<backends, registry, installed, pc>>

\* Event.unsubscribe, called on an event.
unsubscribe(event, consumer, model_names) ==
    /\ consumers' = [consumers EXCEPT ![event] = discard(@, consumer, model_names)]
    /\ ret' = [op |-> "unsubscribe", event |-> event, consumer |-> consumer,
               model_names |-> model_names, result |-> None]
    /\ UNCHANGED <<backends, registry, installed, pc>>

\* has_consumer_for that only looks at the consumers of the model name.
has_consumer_for_model_only(event, session, model_name) ==
    Cardinality(consumers_get(event, model_name)) > 0

\* has_consumer_for that only looks at the consumers of None.
has_consumer_for_wildcard_only(event, session, model_name) ==
    Cardinality(consumers_get(event, None)) > 0

\* Event.has_consumer_for
has_consumer_for(event, session, model_name) ==
    IF Cardinality(consumers_get(event, None)) > 0
    THEN TRUE
    ELSE Cardinality(consumers_get(event, model_name)) > 0

\* Event.has_consumer_for, called.
call_has_consumer_for(event, session, model_name) ==
    /\ ret' = [op |-> "has_consumer_for", event |-> event, session |-> session,
               model_name |-> model_name,
               result |-> has_consumer_for(event, session, model_name)]
    /\ UNCHANGED <<backends, registry, installed, event_vars, pc>>

\* The orders in which a loop may go over a set.
Orders(set) ==
    {order \in [1..Cardinality(set) -> set] :
        \A i, j \in DOMAIN order : order[i] = order[j] => i = j}

\* Event.fire that goes over the consumers of the model name first.
fire_names_model_first(model_name) == <<model_name, None>>

\* The names Event.fire goes over: `for name in (None, model_name)`.
fire_names(model_name) == <<None, model_name>>

\* The arguments Event.fire calls the consumers with.
fire_args(session, model_name, payload) == <<session, model_name>> \o payload

\* consumer(*args), for the consumers in the order of the loop.
invocations(order, args) ==
    [i \in DOMAIN order |-> [consumer |-> order[i], args |-> args]]

\* No exception, and the exception a consumer raises.
NoError == [error |-> None, raised_by |-> None]
ConsumerError(consumer) == [error |-> "Exception", raised_by |-> consumer]

\* The loops of fire that catch what a consumer raises and go on.
call_consumers_swallowing(invoked, raising) ==
    [calls |-> invoked, raised |-> NoError]

\* The loops of Event.fire over the consumers: `invoked` are the calls in the
\* order of the loops, `raising` the consumers that raise when called. The
\* first exception leaves the loops: the calls made and the exception raised.
call_consumers(invoked, raising) ==
    LET at == {i \in DOMAIN invoked : invoked[i].consumer \in raising}
    IN IF at = {}
       THEN [calls |-> invoked, raised |-> NoError]
       ELSE LET i == CHOOSE i \in at : \A j \in at : i <= j
            IN [calls |-> SubSeq(invoked, 1, i),
                raised |-> ConsumerError(invoked[i].consumer)]

\* fire that falls back to the other consumers of an addon when a consumer
\* subscribed for the model name is of a module that is not installed.
fire_outcomes_falling_back(event, session, model_name, payload, raising) ==
    LET args == fire_args(session, model_name, payload)
        of_addons == {"consumer_a", "consumer_b"}
        subscribed_for == consumers_get(event, model_name)
        unavailable == {consumer \in subscribed_for \cap of_addons :
                          consumer_odoo_module_name(consumer) \notin installed}
        fallback == IF unavailable = {} THEN subscribed_for
                    ELSE (subscribed_for \ unavailable)
                            \cup (of_addons \ unavailable)
    IN {call_consumers(invocations(first, args) \o invocations(second, args),
                       raising)
        : first \in Orders(consumers_get(event, None)),
          second \in Orders(fallback)}

\* Event.fire: what it may do. The consumers of None, then those of
\* model_name, are called, each set in an order that is not specified: the
\* calls made, in order, and the exception that ended them, for every order.
fire_outcomes(event, session, model_name, payload, raising) ==
    LET names == fire_names(model_name)
        args == fire_args(session, model_name, payload)
    IN {call_consumers(invocations(first, args) \o invocations(second, args),
                       raising)
        : first \in Orders(consumers_get(event, names[1])),
          second \in Orders(consumers_get(event, names[2]))}

\* fire that reads the consumers with setdefault(name, set()).
fire_setdefault(event, session, model_name, payload, raising) ==
    /\ \E outcome \in fire_outcomes(event, session, model_name, payload, raising) :
          ret' = [op |-> "fire", event |-> event, session |-> session,
                  model_name |-> model_name, payload |-> payload,
                  raising |-> raising,
                  calls |-> outcome.calls, raised |-> outcome.raised,
                  result |-> None]
    /\ consumers' = [consumers EXCEPT ![event] =
                        [name \in DOMAIN @ \cup {model_name} |->
                            IF name \in DOMAIN @ THEN @[name] ELSE {}]]
    /\ UNCHANGED <<backends, registry, installed, pc>>

\* Event.fire, called. ret.calls holds the calls made, in order, and
\* ret.raised the exception that ended them.
fire(event, session, model_name, payload, raising) ==
    /\ \E outcome \in fire_outcomes(event, session, model_name, payload, raising) :
          ret' = [op |-> "fire", event |-> event, session |-> session,
                  model_name |-> model_name, payload |-> payload,
                  raising |-> raising,
                  calls |-> outcome.calls, raised |-> outcome.raised,
                  result |-> None]
    /\ UNCHANGED <<backends, registry, installed, event_vars, pc>>

\* The options of subscribe that a decorator was given, with the defaults of
\* subscribe for the others.
option_model_names(given, model_names) ==
    IF "model_names" \in given THEN model_names ELSE {None}
option_replacing(given, replacing) ==
    IF "replacing" \in given THEN replacing ELSE None

\* The decorator that subscribes the function with the defaults of subscribe,
\* whatever options it was given.
Event_call_without_options(event, func, bare, given, model_names, replacing) ==
    /\ bare => given = {}
    /\ consumers' = [consumers EXCEPT ![event] = subscribed(@, func, {None}, None)]
    /\ ret' = [op |-> "Event.__call__", event |-> event, bare |-> bare,
               given |-> given,
               model_names |-> option_model_names(given, model_names),
               replacing |-> option_replacing(given, replacing),
               result |-> func]
    /\ UNCHANGED <<backends, registry, installed, pc>>

\* Event.__call__, the event used as a decorator of func: bare (`@event`,
\* func is the one argument and there are no options) or with the options
\* named in `given` (`@event(model_names=..., replacing=...)`, which returns
\* the decorator that is then applied to func): self.subscribe(func, **opts),
\* and func is returned.
Event_call(event, func, bare, given, model_names, replacing) ==
    /\ bare => given = {}
    /\ consumers' = [consumers EXCEPT ![event] =
                        subscribed(@, func,
                                   option_model_names(given, model_names),
                                   option_replacing(given, replacing))]
    /\ ret' = [op |-> "Event.__call__", event |-> event, bare |-> bare,
               given |-> given,
               model_names |-> option_model_names(given, model_names),
               replacing |-> option_replacing(given, replacing),
               result |-> func]
    /\ UNCHANGED <<backends, registry, installed, pc>>

\* The values of model_names: None, one name, or a container of names.
ModelNameSets == {{None}} \cup (SUBSET ModelNames \ {{}})

\* ---- producer.py: create, write and unlink of models.BaseModel ----

\* The values the producers pass on, with their Python type.
a_str(s) == [type |-> "str", value |-> s]
an_int(n) == [type |-> "int", value |-> n]
a_list(ids) == [type |-> "list", value |-> ids]
a_dict(d) == [type |-> "dict", value |-> d]
a_bool(b) == [type |-> "bool", value |-> b]
a_record(name, id) == [type |-> "record", value |-> <<name, id>>]
Raised == [type |-> "raised", value |-> None]

\* The exceptions of a call that does not fit the signature, of an assert
\* that fails, and of the original method of BaseModel that a producer wraps.
TypeError(method) == [error |-> "TypeError", raised_by |-> method]
AssertionError(method) == [error |-> "AssertionError", raised_by |-> method]
OriginalError(method) == [error |-> "Exception", raised_by |-> method]

\* The event each producer fires.
producer_event(op) ==
    CASE op = "create" -> "on_record_create"
      [] op = "write" -> "on_record_write"
      [] op = "unlink" -> "on_record_unlink"

\* self._consumers.get(key, set()) for a key of any type: the keys of the
\* dictionary are None and model names, no other value is equal to one.
consumers_get_key(event, key) ==
    IF key.type = "str" THEN consumers_get(event, key.value) ELSE {}

\* event.has_consumer_for(*positional): has_consumer_for(self, session,
\* model_name) takes two arguments, another number is a TypeError.
has_consumer_for_called(event, positional) ==
    IF Len(positional) # 2
    THEN [raised |-> TypeError("has_consumer_for"), result |-> FALSE]
    ELSE [raised |-> NoError,
          result |-> IF positional[2].type = "str"
                     THEN has_consumer_for(event, positional[1],
                                           positional[2].value)
                     ELSE Cardinality(consumers_get(event, None)) > 0]

\* event.fire(*positional): fire(self, session, model_name, *args) takes two
\* arguments or more; it asserts that model_name is a string, which the
\* interpreter checks unless it runs with -O; the calls it makes then.
fire_called(event, positional, assertions) ==
    IF Len(positional) < 2
    THEN {[calls |-> <<>>, raised |-> TypeError("fire")]}
    ELSE LET session == positional[1]
             model_name == positional[2]
             payload == SubSeq(positional, 3, Len(positional))
         IN IF model_name.type = "str"
            THEN fire_outcomes(event, session, model_name.value, payload, {})
            ELSE IF assertions
            THEN {[calls |-> <<>>, raised |-> AssertionError("fire")]}
            ELSE {call_consumers(
                      invocations(first, fire_args(session, model_name, payload))
                      \o invocations(second, fire_args(session, model_name, payload)),
                      {})
                  : first \in Orders(consumers_get(event, None)),
                    second \in Orders(consumers_get_key(event, model_name))}

\* `for record_id in ids: event.fire(self._name, record_id, *extra)`: the
\* fires made, the calls of consumers in them, and the exception that ended
\* the loop.
RECURSIVE fire_each(_, _, _, _, _)
fire_each(event, name, ids, extra, assertions) ==
    IF ids = <<>>
    THEN {[fires |-> <<>>, calls |-> <<>>, raised |-> NoError]}
    ELSE LET positional == <<a_str(name), an_int(Head(ids))>> \o extra
         IN UNION {
              IF outcome.raised # NoError
              THEN {[fires |-> <<positional>>, calls |-> outcome.calls,
                     raised |-> outcome.raised]}
              ELSE {[fires |-> <<positional>> \o rest.fires,
                     calls |-> outcome.calls \o rest.calls,
                     raised |-> rest.raised]
                    : rest \in fire_each(event, name, Tail(ids), extra,
                                         assertions)}
              : outcome \in fire_called(event, positional, assertions)}

\* `if event.has_consumer_for(self._name): for record_id in ids:
\* event.fire(self._name, record_id, *extra)` of write and unlink.
fire_if_consumer(event, name, ids, extra, assertions) ==
    LET has == has_consumer_for_called(event, <<a_str(name)>>)
    IN IF has.raised # NoError
       THEN {[fires |-> <<>>, calls |-> <<>>, raised |-> has.raised]}
       ELSE IF has.result
       THEN fire_each(event, name, ids, extra, assertions)
       ELSE {[fires |-> <<>>, calls |-> <<>>, raised |-> NoError]}

\* What a producer leaves when the original method raises.
original_raised(op, name, ids, assertions) ==
    [op |-> op, model |-> name, ids |-> ids, assertions |-> assertions,
     original |-> "raised", fires |-> <<>>, calls |-> <<>>,
     raised |-> OriginalError(op), result |-> Raised]

\* What a producer leaves after the original method returned: the fires it
\* made, the calls of consumers in them, the exception it raised and the value
\* it returned.
original_returned(op, name, ids, assertions, outcome, result) ==
    [op |-> op, model |-> name, ids |-> ids, assertions |-> assertions,
     original |-> "returned", fires |-> outcome.fires, calls |-> outcome.calls,
     raised |-> outcome.raised,
     result |-> IF outcome.raised = NoError THEN result ELSE Raised]

\* create(self, values): create_original, then
\* on_record_create.fire(self._name, record), then return record.
create(name, id, original_raises, assertions) ==
    /\ IF original_raises
       THEN ret' = original_raised("create", name, <<id>>, assertions)
       ELSE LET record == a_record(name, id)
                positional == <<a_str(name), record>>
            IN \E outcome \in fire_called("on_record_create", positional,
                                          assertions) :
                  ret' = original_returned(
                             "create", name, <<id>>, assertions,
                             [fires |-> <<positional>>, calls |-> outcome.calls,
                              raised |-> outcome.raised],
                             record)
    /\ UNCHANGED <<backends, registry, installed, event_vars, pc>>

\* write(self, values): write_original, then when on_record_write has a
\* consumer, a fire for each id of self._ids, then return True.
write(name, ids, values, original_raises, assertions) ==
    /\ IF original_raises
       THEN ret' = original_raised("write", name, ids, assertions)
       ELSE \E outcome \in fire_if_consumer("on_record_write", name, ids,
                                             <<values>>, assertions) :
               ret' = original_returned("write", name, ids, assertions,
                                        outcome, a_bool(TRUE))
    /\ UNCHANGED <<backends, registry, installed, event_vars, pc>>

\* `if not hasattr(ids, '__contains__'): ids = [ids]` of unlink.
as_list(ids) == IF ids.type = "list" THEN ids.value ELSE <<ids.value>>

\* unlink(self, cr, uid, ids, context=None): unlink_original, then when
\* on_record_unlink has a consumer, a fire for each id, then return True.
unlink(name, ids, original_raises, assertions) ==
    /\ IF original_raises
       THEN ret' = original_raised("unlink", name, as_list(ids), assertions)
       ELSE \E outcome \in fire_if_consumer("on_record_unlink", name,
                                             as_list(ids), <<>>, assertions) :
               ret' = original_returned("unlink", name, as_list(ids),
                                        assertions, outcome, a_bool(TRUE))
    /\ UNCHANGED <<backends, registry, installed, event_vars, pc>>

\* The values of `replacing`: None, one class, or a container of classes.
Replacings == {r \in SUBSET Classes : Cardinality(r) <= MaxReplacing}

QueryBases == {"LambdaUnit", "LambdaYesUnit"}

\* ---- calls that run between the statements of another call ----

\* The queries of get_service_class, and what it gives for each on backend b.
Queries == QueryBases \X ModelNames
resolved(b) == [q \in Queries |-> get_service_class(b, q[1], q[2])]

\* The entries of backend b that hold `cls` in their replaced_by, and those of
\* the classes named in `replacing`.
replaced_entries(b, cls) ==
    {i \in DOMAIN backends[b].class_entries :
        \E j \in DOMAIN backends[b].class_entries[i].replaced_by :
            backends[b].class_entries[i].replaced_by[j] = cls}
named_entries(b, replacing) ==
    {i \in DOMAIN backends[b].class_entries :
        \E j \in DOMAIN replacing :
            backends[b].class_entries[i].service_class = replacing[j]}

\* register_service_class up to the loop of _register_replace: the entry is
\* built, and the call returns when the backend holds the class. `replacing`
\* is the container in the order of its iteration. pc keeps what
\* get_service_class gives before the call, and the lookup that runs before
\* the call returns.
begin_register_service_class(b, service_class, replacing) ==
    /\ pc = Idle
    /\ b \in BackendIds
    /\ LET class_entries == backends[b].class_entries
           registered == \E i \in DOMAIN class_entries :
                            class_entries[i].service_class = service_class
       IN /\ HasRoomFor(class_entries,
                        Append(class_entries, ConnectorUnitEntry(service_class, <<>>)))
          /\ pc' = IF registered
                   THEN Idle
                   ELSE [op |-> "register_service_class", backend |-> b,
                         service_class |-> service_class,
                         replacing |-> replacing, todo |-> replacing,
                         before |-> resolved(b), seen |-> <<>>]
          /\ ret' = [op |-> IF registered THEN "register_service_class"
                            ELSE "register_service_class begins",
                     result |-> None]
    /\ UNCHANGED <<backends, registry, installed, event_vars>>

\* One turn of `for replacing_class in replacing` of _register_replace: the
\* entry is appended to the replaced_by of the entry of the class, if the
\* backend holds it.
register_replace_next ==
    /\ pc.op = "register_service_class"
    /\ pc.todo # <<>>
    /\ backends' = [backends EXCEPT ![pc.backend].class_entries =
                       register_replace(@, {Head(pc.todo)}, pc.service_class)]
    /\ pc' = [pc EXCEPT !.todo = Tail(@)]
    /\ ret' = [op |-> "_register_replace", result |-> None]
    /\ UNCHANGED <<registry, installed, event_vars>>

\* The append that takes the entry out of the replaced_by it was added to.
register_append_unreplacing ==
    /\ pc.op = "register_service_class"
    /\ pc.todo = <<>>
    /\ backends' = [backends EXCEPT ![pc.backend].class_entries =
                       Append([i \in DOMAIN @ |->
                                  [@[i] EXCEPT !.replaced_by =
                                      SelectSeq(@, LAMBDA cls :
                                                    cls # pc.service_class)]],
                              ConnectorUnitEntry(pc.service_class, <<>>))]
    /\ pc' = Idle
    /\ ret' = [op |-> "registered", backend |-> pc.backend,
               service_class |-> pc.service_class, replacing |-> pc.replacing,
               before |-> pc.before, seen |-> pc.seen, result |-> None]
    /\ UNCHANGED <<registry, installed, event_vars>>

\* self._class_entries.append(entry), the last statement of
\* register_service_class. ret keeps what pc held.
register_append ==
    /\ pc.op = "register_service_class"
    /\ pc.todo = <<>>
    /\ backends' = [backends EXCEPT ![pc.backend].class_entries =
                       Append(@, ConnectorUnitEntry(pc.service_class, <<>>))]
    /\ pc' = Idle
    /\ ret' = [op |-> "registered", backend |-> pc.backend,
               service_class |-> pc.service_class, replacing |-> pc.replacing,
               before |-> pc.before, seen |-> pc.seen, result |-> None]
    /\ UNCHANGED <<registry, installed, event_vars>>

\* get_service_class called by another thread on the backend of the
\* register_service_class under way: pc keeps the query, what it gave, and how
\* many of the entries of the classes named held the new entry in their
\* replaced_by then.
get_service_class_meanwhile(base_class, model_name) ==
    /\ pc.op = "register_service_class"
    /\ pc.seen = <<>>
    /\ LET found == get_service_class(pc.backend, base_class, model_name)
       IN /\ ret' = [op |-> "get_service_class", backend |-> pc.backend,
                     base_class |-> base_class, model_name |-> model_name,
                     result |-> found]
          /\ pc' = [pc EXCEPT !.seen =
                       <<[query |-> <<base_class, model_name>>,
                          added |-> Cardinality(replaced_entries(pc.backend,
                                                                 pc.service_class)),
                          total |-> Cardinality(named_entries(pc.backend,
                                                              pc.replacing)),
                          result |-> found]>>]
    /\ UNCHANGED <<backends, registry, installed, event_vars>>

\* ---- connector.py: Environment ----

\* backend.get_service_class(*positional): get_service_class(self,
\* base_class, session, model_name) takes three arguments, another number is
\* a TypeError; the class returned or None, and the error raised.
get_service_class_called(b, positional) ==
    IF Len(positional) # 3
    THEN [raised |-> TypeError("get_service_class"),
          result |-> [kind |-> None, value |-> None]]
    ELSE LET found == get_service_class(b, positional[1], positional[3])
         IN IF found.kind = "ConnectorUnitError"
            THEN [raised |-> [error |-> "ConnectorUnitError",
                              raised_by |-> "get_service_class"],
                  result |-> [kind |-> None, value |-> None]]
            ELSE [raised |-> NoError, result |-> found]

\* Environment.__init__: the backend of the backend record, the session and
\* the model name.
Environment_init(b, session, model_name) ==
    [backend |-> b, session |-> session, model_name |-> model_name]

\* Environment.get_connector_unit, called: `connector_unit_class =
\* self.backend.get_service_class(base_class, self.model_name)`, then
\* `return connector_unit_class(self)`, where calling None is a TypeError.
get_connector_unit(env, base_class) ==
    /\ env.backend \in BackendIds
    /\ LET called == get_service_class_called(
                         env.backend, <<base_class, env.model_name>>)
           nothing == [kind |-> None, value |-> None, environment |-> env]
       IN ret' = [op |-> "get_connector_unit", environment |-> env,
                  base_class |-> base_class,
                  raised |-> IF called.raised # NoError THEN called.raised
                             ELSE IF called.result.kind = None
                             THEN TypeError("get_connector_unit")
                             ELSE NoError,
                  result |-> IF called.raised = NoError
                                /\ called.result.kind = "class"
                             THEN [kind |-> "instance",
                                   value |-> called.result.value,
                                   environment |-> env]
                             ELSE nothing]
    /\ UNCHANGED <<backends, registry, installed, event_vars, pc>>

\* dict.get(name, set()) on a dictionary of an event.
dict_get(dict, name) == IF name \in DOMAIN dict THEN dict[name] ELSE {}

\* The names of a container given in the order of its iteration.
names_of(order) == {order[i] : i \in DOMAIN order}

\* subscribe that begins without the unsubscribe of `replacing`.
begin_subscribe_keeping(event, consumer, model_names, replacing) ==
    /\ pc = Idle
    /\ pc' = [op |-> "subscribe", event |-> event, consumer |-> consumer,
              model_names |-> model_names, replacing |-> replacing,
              todo |-> model_names, before |-> consumers[event],
              seen |-> <<>>]
    /\ ret' = [op |-> "subscribe begins", result |-> None]
    /\ UNCHANGED <<backends, registry, installed, event_vars>>

\* subscribe up to its loop: `if replacing is not None:
\* self.unsubscribe(replacing, model_names=model_names)`. model_names is the
\* container in the order of its iteration. pc keeps the dictionary of the
\* event before the call, and the fire that runs before the call returns.
begin_subscribe(event, consumer, model_names, replacing) ==
    /\ pc = Idle
    /\ consumers' = [consumers EXCEPT ![event] =
                        IF replacing # None
                        THEN discard(@, replacing, names_of(model_names))
                        ELSE @]
    /\ pc' = [op |-> "subscribe", event |-> event, consumer |-> consumer,
              model_names |-> model_names, replacing |-> replacing,
              todo |-> model_names, before |-> consumers[event],
              seen |-> <<>>]
    /\ ret' = [op |-> "subscribe begins", result |-> None]
    /\ UNCHANGED <<backends, registry, installed>>

\* One turn of `for name in model_names:
\* self._consumers.setdefault(name, set()).add(consumer)`; subscribe returns
\* after the last one, and ret keeps what pc held.
subscribe_add_next ==
    /\ pc.op = "subscribe"
    /\ consumers' = [consumers EXCEPT ![pc.event] =
                        setdefault_add(@, pc.consumer, {Head(pc.todo)})]
    /\ IF Len(pc.todo) > 1
       THEN /\ pc' = [pc EXCEPT !.todo = Tail(@)]
            /\ ret' = [op |-> "subscribe adds", result |-> None]
       ELSE /\ pc' = Idle
            /\ ret' = [op |-> "subscribed", event |-> pc.event,
                       consumer |-> pc.consumer,
                       model_names |-> names_of(pc.model_names),
                       replacing |-> pc.replacing, before |-> pc.before,
                       seen |-> pc.seen, result |-> None]
    /\ UNCHANGED <<backends, registry, installed>>

\* fire called by another thread on the event of the subscribe under way: pc
\* keeps the model name, the consumers it called, and the names the consumer
\* was still to be added to then.
fire_meanwhile(model_name, payload) ==
    /\ pc.op = "subscribe"
    /\ pc.seen = <<>>
    /\ \E outcome \in fire_outcomes(pc.event, Session, model_name, payload, {}) :
          /\ ret' = [op |-> "fire", event |-> pc.event, session |-> Session,
                     model_name |-> model_name, payload |-> payload,
                     raising |-> {},
                     calls |-> outcome.calls, raised |-> outcome.raised,
                     result |-> None]
          /\ pc' = [pc EXCEPT !.seen =
                       <<[model_name |-> model_name,
                          pending |-> names_of(pc.todo),
                          called |-> {outcome.calls[i].consumer
                                      : i \in DOMAIN outcome.calls}]>>]
    /\ UNCHANGED <<backends, registry, installed, event_vars>>

Init ==
    /\ backends = <<>>
    /\ registry = {}
    /\ installed = Modules
    /\ ret = [op |-> None, result |-> None]
    /\ consumers = [event \in Events |-> Event_init]
    /\ pc = Idle

Next ==
    \/ \E name \in Names \cup {None}, version \in Versions,
          parent \in {0} \cup BackendIds : Backend_init(name, version, parent)
    \/ \E b \in BackendIds, service_class \in Classes, replacing \in Replacings :
          register_service_class(b, service_class, replacing)
    \/ \E b \in BackendIds, base_class \in QueryBases, model_name \in ModelNames :
          call_get_service_class(b, base_class, model_name)
    \/ \E module \in Addons : install_module(module)
    \/ \E module \in Addons : uninstall_module(module)

Spec == Init /\ [][Next]_vars

\* The names and the versions of the backends looked up by name and version.
IndexNames == {"magento", "prestashop"}
IndexVersions == {None, "1.7"}

\* Backends are built, with and without a version and a parent, and looked up
\* in the registry.
NextIndex ==
    \/ \E name \in IndexNames \cup {None}, version \in IndexVersions,
          parent \in {0} \cup BackendIds : Backend_init(name, version, parent)
    \/ \E name \in IndexNames, version \in IndexVersions,
          default \in {0} \cup BackendIds : call_get_backend(name, version, default)
    \/ clear_backend_registry

SpecIndex == Init /\ [][NextIndex]_vars

\* The event of the runs that work on one event.
OneEvent == "on_record_write"

\* Consumers subscribe to an event and unsubscribe from it, modules are
\* installed and uninstalled, and the event is fired; every consumer returns.
NextEvent ==
    \/ \E consumer \in Consumers, model_names \in ModelNameSets,
          replacing \in Consumers \cup {None} :
          subscribe(OneEvent, consumer, model_names, replacing)
    \/ \E consumer \in Consumers, model_names \in ModelNameSets :
          unsubscribe(OneEvent, consumer, model_names)
    \/ \E model_name \in ModelNames :
          call_has_consumer_for(OneEvent, Session, model_name)
    \/ \E model_name \in ModelNames, payload \in Payloads :
          fire(OneEvent, Session, model_name, payload, {})
    \/ \E module \in Addons : install_module(module)
    \/ \E module \in Addons : uninstall_module(module)

SpecEvent == Init /\ [][NextEvent]_vars

\* The payload of the fires whose consumers may raise.
OnePayload == <<42>>

\* Subscriptions and fires of one event where the consumers of any set
\* `raising` raise an exception when they are called.
NextFailFast ==
    \/ \E consumer \in Consumers, model_names \in ModelNameSets :
          subscribe(OneEvent, consumer, model_names, None)
    \/ \E consumer \in Consumers, model_names \in ModelNameSets :
          unsubscribe(OneEvent, consumer, model_names)
    \/ \E model_name \in ModelNames, raising \in SUBSET Consumers :
          fire(OneEvent, Session, model_name, OnePayload, raising)

SpecFailFast == Init /\ [][NextFailFast]_vars

\* The consumer of the record events, the scopes it subscribes for, and the
\* records written and deleted.
RecordConsumer == "consumer_a"
RecordScopes == {{None}} \cup {{name} : name \in ModelNames}
RecordIds == {<<7>>, <<7, 8>>}
Values == a_dict("values")

\* A consumer subscribes to the three record events, and records of the
\* models are created, written and deleted (unlink is given a container of
\* ids or one id); the original method of BaseModel returns or raises, and
\* the interpreter runs with or without asserts.
NextProducer ==
    \/ \E event \in Events, model_names \in RecordScopes :
          subscribe(event, RecordConsumer, model_names, None)
    \/ \E name \in ModelNames, original_raises \in BOOLEAN,
          assertions \in BOOLEAN :
          create(name, 42, original_raises, assertions)
    \/ \E name \in ModelNames, ids \in RecordIds, original_raises \in BOOLEAN,
          assertions \in BOOLEAN :
          write(name, ids, Values, original_raises, assertions)
    \/ \E name \in ModelNames, ids \in RecordIds, container \in BOOLEAN,
          original_raises \in BOOLEAN, assertions \in BOOLEAN :
          unlink(name, IF container THEN a_list(ids) ELSE an_int(Head(ids)),
                 original_raises, assertions)

SpecProducer == Init /\ [][NextProducer]_vars

\* The functions decorated with an event, and the classes and the values of
\* `replacing` a backend decorates.
DecoratedFunctions == {"consumer_a", "consumer_b"}
DecoratedClasses == {"LambdaUnit", "LambdaYesUnit"}
DecoratedReplacings == {{}, {"LambdaUnit"}}

\* Backends and an event used as decorators, bare and with options.
NextDecorator ==
    \/ \E parent \in {0} \cup BackendIds : Backend_init("magento", None, parent)
    \/ \E b \in BackendIds, service_class \in DecoratedClasses,
          replacing \in DecoratedReplacings :
          Backend_call(b, service_class, replacing)
    \/ \E func \in DecoratedFunctions, bare \in BOOLEAN,
          given \in SUBSET {"model_names", "replacing"},
          model_names \in RecordScopes,
          replacing \in DecoratedFunctions :
          Event_call(OneEvent, func, bare, given, model_names, replacing)

SpecDecorator == Init /\ [][NextDecorator]_vars

\* Backends are built, classes are registered on them and removed from them.
NextRemove ==
    \/ \E parent \in {0} \cup BackendIds : Backend_init("magento", None, parent)
    \/ \E b \in BackendIds, service_class \in Classes, replacing \in Replacings :
          register_service_class(b, service_class, replacing)
    \/ \E b \in BackendIds, service_class \in Classes :
          remove_service_class(b, service_class)

SpecRemove == Init /\ [][NextRemove]_vars

\* Backends are built, classes are registered on them, and classes and
\* backends are looked up.
NextReadOnly ==
    \/ \E name \in Names \cup {None}, parent \in {0} \cup BackendIds :
          Backend_init(name, None, parent)
    \/ \E b \in BackendIds, service_class \in Classes, replacing \in Replacings :
          register_service_class(b, service_class, replacing)
    \/ \E b \in BackendIds, base_class \in QueryBases, model_name \in ModelNames :
          call_get_service_class(b, base_class, model_name)
    \/ \E name \in Names, default \in {0} \cup BackendIds :
          call_get_backend(name, None, default)

SpecReadOnly == Init /\ [][NextReadOnly]_vars

\* The containers of classes given as `replacing`, in the order of their
\* iteration.
ReplacingOrders == UNION {Orders(replacing) : replacing \in Replacings}

\* A backend is built and classes are registered on it statement by
\* statement, while another thread looks a class up.
NextInterleaved ==
    \/ Backend_init("magento", None, 0)
    \/ \E b \in BackendIds, service_class \in Classes,
          replacing \in ReplacingOrders :
          begin_register_service_class(b, service_class, replacing)
    \/ register_replace_next
    \/ register_append
    \/ \E base_class \in QueryBases, model_name \in ModelNames :
          get_service_class_meanwhile(base_class, model_name)

SpecInterleaved == Init /\ [][NextInterleaved]_vars

\* The containers of names given as model_names, in the order of their
\* iteration.
ModelNameOrders == UNION {Orders(model_names) : model_names \in ModelNameSets}

\* Consumers are subscribed to an event statement by statement, while another
\* thread fires the event.
NextInterleavedEvent ==
    \/ \E consumer \in DecoratedFunctions, model_names \in ModelNameOrders,
          replacing \in DecoratedFunctions \cup {None} :
          begin_subscribe(OneEvent, consumer, model_names, replacing)
    \/ subscribe_add_next
    \/ \E model_name \in ModelNames : fire_meanwhile(model_name, OnePayload)

SpecInterleavedEvent == Init /\ [][NextInterleavedEvent]_vars

\* The events of the runs that work on two events.
TwoEvents == {"on_record_write", "on_record_create"}

\* Consumers subscribe to two events, for None or for one model name, and
\* unsubscribe from them, and the events are fired.
NextTopics ==
    \/ \E event \in TwoEvents, consumer \in DecoratedFunctions,
          model_names \in RecordScopes, replacing \in {None, RecordConsumer} :
          subscribe(event, consumer, model_names, replacing)
    \/ \E event \in TwoEvents, consumer \in DecoratedFunctions,
          model_names \in RecordScopes :
          unsubscribe(event, consumer, model_names)
    \/ \E event \in TwoEvents, model_name \in ModelNames :
          fire(event, Session, model_name, OnePayload, {})

SpecTopics == Init /\ [][NextTopics]_vars

\* Consumers subscribe to an event and unsubscribe from it; the event is
\* asked for its consumers and fired, and the consumers of any set `raising`
\* raise an exception when they are called.
NextObserved ==
    \/ \E consumer \in Consumers, model_names \in ModelNameSets :
          subscribe(OneEvent, consumer, model_names, None)
    \/ \E consumer \in Consumers, model_names \in ModelNameSets :
          unsubscribe(OneEvent, consumer, model_names)
    \/ \E model_name \in ModelNames :
          call_has_consumer_for(OneEvent, Session, model_name)
    \/ \E model_name \in ModelNames, raising \in SUBSET Consumers :
          fire(OneEvent, Session, model_name, OnePayload, raising)

SpecObserved == Init /\ [][NextObserved]_vars

\* Backends are built, classes are registered on them, and connector units
\* are asked of environments of the backends.
NextEnvironment ==
    \/ \E parent \in {0} \cup BackendIds : Backend_init("magento", None, parent)
    \/ \E b \in BackendIds, service_class \in Classes, replacing \in Replacings :
          register_service_class(b, service_class, replacing)
    \/ \E b \in BackendIds, model_name \in ModelNames, base_class \in QueryBases :
          get_connector_unit(Environment_init(b, Session, model_name), base_class)

SpecEnvironment == Init /\ [][NextEnvironment]_vars

\* The backends built and decorated at import time, before any module is
\* installed or uninstalled: classes are registered with the backend used as a
\* decorator.
NextRegister ==
    \/ \E name \in Names \cup {None}, version \in Versions,
          parent \in {0} \cup BackendIds : Backend_init(name, version, parent)
    \/ \E b \in BackendIds, service_class \in Classes, replacing \in Replacings :
          Backend_call(b, service_class, replacing)

SpecRegister == Init /\ [][NextRegister]_vars

\* -------------------------------------------------------------- properties

\* The last call was get_service_class; ret holds its arguments and outcome.
\* Every other operation overwrites ret, so the state is the one of the call.
IsCall == ret.op = "get_service_class"

Returned(cls) == [kind |-> "class", value |-> cls]
NotFound == [kind |-> None, value |-> None]
Ambiguous == [kind |-> "ConnectorUnitError", value |-> None]

\* The class's module is installed.
Available(cls) == odoo_module_name(cls) \in installed

\* The class is a subclass of the role and applies to the model.
Matches(cls, base_class, model_name) ==
    /\ base_class \in mro(cls)
    /\ model_name \in model_name_of(cls)

\* The class is available and matches the query.
Candidate(cls, base_class, model_name) ==
    Available(cls) /\ Matches(cls, base_class, model_name)

\* The entries of backend b are exactly these, in this order.
EntriesAre(b, entries) == backends[b].class_entries = entries

\* C1: on a backend where A was registered and then B with replacing=A, both
\* available and matching the query, get_service_class returns B.
C1_ReplacingClassReturned ==
    IsCall =>
        \A A \in Classes, B \in Classes :
            ( /\ A # B
              /\ EntriesAre(ret.backend, <<ConnectorUnitEntry(A, <<B>>),
                                           ConnectorUnitEntry(B, <<>>)>>)
              /\ Candidate(A, ret.base_class, ret.model_name)
              /\ Candidate(B, ret.base_class, ret.model_name) )
            => ret.result = Returned(B)

C1_Witness ==
    /\ IsCall
    /\ EntriesAre(ret.backend, <<ConnectorUnitEntry("LambdaNoUnit", <<"LambdaYesUnit">>),
                                 ConnectorUnitEntry("LambdaYesUnit", <<>>)>>)
    /\ Candidate("LambdaNoUnit", ret.base_class, ret.model_name)
    /\ Candidate("LambdaYesUnit", ret.base_class, ret.model_name)
    /\ ret.result = Returned("LambdaYesUnit")

\* C2: with A registered and B registered with replacing=A, both matching the
\* query and A available, get_service_class returns B in every state where B
\* is available and A in every state where B is not, whatever installs and
\* uninstalls came before.
C2_AvailabilityAtResolveTime ==
    IsCall =>
        \A A \in Classes, B \in Classes :
            ( /\ A # B
              /\ EntriesAre(ret.backend, <<ConnectorUnitEntry(A, <<B>>),
                                           ConnectorUnitEntry(B, <<>>)>>)
              /\ Candidate(A, ret.base_class, ret.model_name)
              /\ Matches(B, ret.base_class, ret.model_name) )
            => ret.result = IF Available(B) THEN Returned(B) ELSE Returned(A)
C2_Witness ==
    /\ IsCall
    /\ EntriesAre(ret.backend, <<ConnectorUnitEntry("LambdaNoUnit", <<"LambdaYesUnit">>),
                                 ConnectorUnitEntry("LambdaYesUnit", <<>>)>>)
    /\ Matches("LambdaYesUnit", ret.base_class, ret.model_name)
    /\ Available("LambdaNoUnit")
    /\ ~Available("LambdaYesUnit")
    /\ ret.result = Returned("LambdaNoUnit")

\* The classes registered on backend b.
RegisteredOn(b) ==
    {backends[b].class_entries[i].service_class : i \in DOMAIN backends[b].class_entries}

\* The classes of the entries in the replaced_by of cls's entry on backend b.
ReplacedBy(b, cls) ==
    LET replaced_by == entry_of(b, cls).replaced_by
    IN {replaced_by[i] : i \in DOMAIN replaced_by}

\* The classes reached from those of S along replaced_by, in at most n steps.
RECURSIVE Reach(_, _, _)
Reach(b, S, n) ==
    IF n = 0 THEN S
    ELSE Reach(b, S \cup UNION {ReplacedBy(b, cls) : cls \in S}, n - 1)

\* The classes that replace cls on backend b, directly or along a chain.
Replacers(b, cls) == Reach(b, ReplacedBy(b, cls), Cardinality(Classes))

\* The candidates of backend b that no candidate replaces.
Unreplaced(b, base_class, model_name) ==
    {cls \in RegisteredOn(b) :
        /\ Candidate(cls, base_class, model_name)
        /\ \A r \in Replacers(b, cls) : ~Candidate(r, base_class, model_name)}

\* The first backend, from b up the parents, with an unreplaced candidate;
\* 0 when there is none.
RECURSIVE FirstWithCandidate(_, _, _)
FirstWithCandidate(b, base_class, model_name) ==
    IF Unreplaced(b, base_class, model_name) # {} THEN b
    ELSE IF backends[b].parent = 0 THEN 0
    ELSE FirstWithCandidate(backends[b].parent, base_class, model_name)

LocalCandidates(b, base_class, model_name) ==
    {cls \in RegisteredOn(b) : Candidate(cls, base_class, model_name)}

\* The class of S registered last on backend b.
LastRegistered(b, S) ==
    LET es == backends[b].class_entries
        last == CHOOSE i \in DOMAIN es :
                    /\ es[i].service_class \in S
                    /\ \A j \in DOMAIN es : es[j].service_class \in S => j <= i
    IN es[last].service_class

\* C4: when several available classes registered on one backend match the
\* query and none of them replaces another, get_service_class returns the one
\* registered last.
C4_LastRegisteredReturned ==
    IsCall =>
        LET b == ret.backend
            M == LocalCandidates(b, ret.base_class, ret.model_name)
        IN ( /\ Cardinality(M) >= 2
             /\ \A cls \in M : ReplacedBy(b, cls) \cap M = {} )
           => ret.result = Returned(LastRegistered(b, M))

\* The entries after A and A2 were registered and then B with replacing={A, A2}.
Diamond(A, A2, B) ==
    <<ConnectorUnitEntry(A, <<B>>), ConnectorUnitEntry(A2, <<B>>),
      ConnectorUnitEntry(B, <<>>)>>

\* C5, as stated: with A and A2 registered and then B with replacing={A, A2},
\* and B available, get_service_class for a role and model that match A or A2
\* returns B.
C5_DiamondAsStated ==
    IsCall =>
        \A A \in Classes, A2 \in Classes, B \in Classes :
            ( /\ Cardinality({A, A2, B}) = 3
              /\ EntriesAre(ret.backend, Diamond(A, A2, B))
              /\ Available(B)
              /\ \/ Matches(A, ret.base_class, ret.model_name)
                 \/ Matches(A2, ret.base_class, ret.model_name) )
            => ret.result = Returned(B)

\* The outcome for the query is B whenever B is a candidate for it and A or A2
\* matches it.
DiamondOutcome(b, A, A2, B) ==
    \A base_class \in QueryBases, model_name \in ModelNames :
        ( /\ Candidate(B, base_class, model_name)
          /\ \/ Matches(A, base_class, model_name)
             \/ Matches(A2, base_class, model_name) )
        => get_service_class(b, base_class, model_name) = Returned(B)

\* C5, amended: with A and A2 registered and then B with replacing={A, A2}, B
\* available and itself matching the queried role and model, get_service_class
\* for a role and model that match A or A2 returns B and raises nothing: right
\* after the registration of B, and at every later call on these entries.
C5_DiamondReturnsReplacing ==
    /\ [][ (ret'.op = "register_service_class" /\ backends' # backends) =>
            \A b \in BackendIds, A \in Classes, A2 \in Classes, B \in Classes :
              ( /\ Cardinality({A, A2, B}) = 3
                /\ EntriesAre(b, <<ConnectorUnitEntry(A, <<>>),
                                   ConnectorUnitEntry(A2, <<>>)>>)
                /\ register_service_class(b, B, {A, A2}) )
              => DiamondOutcome(b, A, A2, B)' ]_vars
    /\ [](IsCall =>
            \A A \in Classes, A2 \in Classes, B \in Classes :
                ( /\ Cardinality({A, A2, B}) = 3
                  /\ EntriesAre(ret.backend, Diamond(A, A2, B))
                  /\ Candidate(B, ret.base_class, ret.model_name)
                  /\ \/ Matches(A, ret.base_class, ret.model_name)
                     \/ Matches(A2, ret.base_class, ret.model_name) )
                => ret.result = Returned(B))

C5_Witness ==
    /\ IsCall
    /\ EntriesAre(ret.backend, Diamond("LambdaUnit", "LambdaNoUnit", "LambdaYesUnit"))
    /\ Candidate("LambdaUnit", ret.base_class, ret.model_name)
    /\ Candidate("LambdaNoUnit", ret.base_class, ret.model_name)
    /\ Candidate("LambdaYesUnit", ret.base_class, ret.model_name)
    /\ ret.result = Returned("LambdaYesUnit")

\* The entries after A was registered, then B with replacing=A, then C with
\* replacing=B.
Chain(A, B, C) ==
    <<ConnectorUnitEntry(A, <<B>>), ConnectorUnitEntry(B, <<C>>),
      ConnectorUnitEntry(C, <<>>)>>

\* C6: with A replaced by B and B replaced by C on one backend, all three
\* matching the query, get_service_class returns C when C is available, B when
\* C is not and B is, A when neither C nor B is and A is.
C6_ReplacementChain ==
    IsCall =>
        \A A \in Classes, B \in Classes, C \in Classes :
            ( /\ Cardinality({A, B, C}) = 3
              /\ EntriesAre(ret.backend, Chain(A, B, C))
              /\ Matches(A, ret.base_class, ret.model_name)
              /\ Matches(B, ret.base_class, ret.model_name)
              /\ Matches(C, ret.base_class, ret.model_name) )
            => /\ Available(C) => ret.result = Returned(C)
               /\ ~Available(C) /\ Available(B) => ret.result = Returned(B)
               /\ ~Available(C) /\ ~Available(B) /\ Available(A)
                      => ret.result = Returned(A)

C6_Witness ==
    /\ IsCall
    /\ \E B \in Classes, C \in Classes :
          /\ EntriesAre(ret.backend, Chain("LambdaUnit", B, C))
          /\ Matches(B, ret.base_class, ret.model_name)
          /\ Matches(C, ret.base_class, ret.model_name)
          /\ ~Available(B)
          /\ ~Available(C)
    /\ ret.result = Returned("LambdaUnit")

\* C7: when the backend and its nearer ancestors have no candidate, whatever
\* other entries they hold, and the first ancestor that has one has exactly
\* one, get_service_class on the backend returns that ancestor's class.
C7_ParentFallback ==
    IsCall =>
        LET first == FirstWithCandidate(ret.backend, ret.base_class, ret.model_name)
            found == Unreplaced(first, ret.base_class, ret.model_name)
        IN ( /\ first # 0
             /\ first # ret.backend
             /\ Cardinality(found) = 1 )
           => \E cls \in found : ret.result = Returned(cls)

\* The call was on a backend with a parent and a grandparent; the grandparent
\* is the first with a candidate, and the nearer two hold other entries.
C7_Witness ==
    /\ IsCall
    /\ LET b == ret.backend
           parent == backends[b].parent
       IN /\ parent # 0
          /\ backends[parent].parent # 0
          /\ FirstWithCandidate(b, ret.base_class, ret.model_name)
                = backends[parent].parent
          /\ RegisteredOn(b) \cup RegisteredOn(parent) # {}
          /\ ret.result.kind = "class"
          /\ ret.result.value \in RegisteredOn(backends[parent].parent)

RECURSIVE ParentChain(_)
ParentChain(b) ==
    IF b = 0 THEN {} ELSE {b} \cup ParentChain(backends[b].parent)

\* C9: a class that get_service_class returns is, in the state of the call,
\* available, a subclass of the base class asked for, applicable to the model
\* name asked for, and registered on the backend or one of its ancestors.
C9_ReturnedClassIsCandidate ==
    (IsCall /\ ret.result.kind = "class") =>
        /\ Available(ret.result.value)
        /\ ret.base_class \in mro(ret.result.value)
        /\ ret.model_name \in model_name_of(ret.result.value)
        /\ \E n \in ParentChain(ret.backend) : ret.result.value \in RegisteredOn(n)

\* A class is returned while the backend also holds a matching class of an
\* uninstalled module and a class of another model.
C9_Witness ==
    /\ IsCall
    /\ ret.result.kind = "class"
    /\ \E cls \in RegisteredOn(ret.backend) :
          Matches(cls, ret.base_class, ret.model_name) /\ ~Available(cls)
    /\ \E cls \in RegisteredOn(ret.backend) :
          ret.model_name \notin model_name_of(cls)

\* C10: get_service_class returns None, raising nothing, exactly when no
\* backend from the one asked up to the root holds an available class matching
\* the query.
C10_NoneIffNoCandidate ==
    IsCall =>
        ( ret.result = NotFound
          <=> \A n \in ParentChain(ret.backend) :
                 LocalCandidates(n, ret.base_class, ret.model_name) = {} )

\* None is returned for a class registered nowhere in the chain, whose
\* backends hold other classes.
C10_Witness ==
    /\ IsCall
    /\ ret.result = NotFound
    /\ backends[ret.backend].parent # 0
    /\ \A n \in ParentChain(ret.backend) : ret.base_class \notin RegisteredOn(n)
    /\ \E n \in ParentChain(ret.backend) : RegisteredOn(n) # {}

\* ------------------------------------------------ properties of registration

\* The last call was the backend used as a decorator; ret holds the backend,
\* the classes named in `replacing` and the class decorated.
IsDecorated == ret.op = "__call__"

\* The classes in the replaced_by of the i-th entry of backend b.
ReplacedByAt(b, i) ==
    LET replaced_by == backends[b].class_entries[i].replaced_by
    IN {replaced_by[j] : j \in DOMAIN replaced_by}

\* No two entries of a backend hold the same class.
OneEntryPerClass ==
    \A b \in BackendIds :
        \A i, j \in DOMAIN backends[b].class_entries :
            backends[b].class_entries[i].service_class =
                backends[b].class_entries[j].service_class => i = j

\* C11: each backend holds at most one entry per class, and registering a
\* class that the backend already holds leaves the number and the order of
\* its entries unchanged.
C11_OneEntryPerClass ==
    /\ []OneEntryPerClass
    /\ [][\A b \in BackendIds, cls \in Classes :
            ( /\ ret'.op = "__call__"
              /\ ret'.backend = b
              /\ ret'.result = cls
              /\ cls \in RegisteredOn(b) )
            => registered_classes(b)' = registered_classes(b)]_vars

\* A class was registered again on a backend where other classes were
\* registered after it.
C11_Witness ==
    /\ IsDecorated
    /\ Len(backends[ret.backend].class_entries) = 3
    /\ backends[ret.backend].class_entries[1].service_class = ret.result
    /\ OneEntryPerClass

\* No entry is in its own replaced_by.
NoSelfEdge ==
    \A b \in BackendIds :
        \A i \in DOMAIN backends[b].class_entries :
            backends[b].class_entries[i].service_class \notin ReplacedByAt(b, i)

\* C12: no entry is ever in its own replaced_by, and registering A with
\* replacing=A leaves the entries that registering A without `replacing`
\* leaves (unchanged when A is registered, A with an empty replaced_by
\* appended when it is not), so that A is returned for a query it matches
\* when it is the only class of the backend.
C12_NoSelfReplacement ==
    /\ []NoSelfEdge
    /\ [][\A b \in BackendIds, A \in Classes :
            ( /\ ret'.op = "__call__"
              /\ ret'.backend = b
              /\ ret'.result = A
              /\ ret'.replacing = {A} )
            => /\ backends'[b].class_entries =
                     IF A \in RegisteredOn(b)
                     THEN backends[b].class_entries
                     ELSE Append(backends[b].class_entries,
                                 ConnectorUnitEntry(A, <<>>))
               /\ \A base_class \in QueryBases, model_name \in ModelNames :
                     ( /\ backends[b].class_entries = <<>>
                       /\ Candidate(A, base_class, model_name) )
                     => get_service_class(b, base_class, model_name)'
                            = Returned(A)]_vars

\* A class was registered with replacing naming the class itself, on a
\* backend that holds another class, and its replaced_by is empty.
C12_Witness ==
    /\ IsDecorated
    /\ ret.replacing = {ret.result}
    /\ Len(backends[ret.backend].class_entries) = 2
    /\ backends[ret.backend].class_entries[2] =
           ConnectorUnitEntry(ret.result, <<>>)

\* C13: when B is registered with replacing=A on a backend that does not hold
\* A while one of its ancestors does, no other backend changes (the entries
\* and the replaced_by of the ancestors are as before), A gets no entry on the
\* backend, B gets one that replaces nothing of A, and get_service_class on
\* the ancestors returns what it returned before.
C13_ReplacementIsLocal ==
    [][\A b \in BackendIds, A \in Classes, B \in Classes :
        ( /\ ret'.op = "__call__"
          /\ ret'.backend = b
          /\ ret'.result = B
          /\ A \in ret'.replacing
          /\ A \notin RegisteredOn(b)
          /\ B \notin RegisteredOn(b)
          /\ \E n \in ParentChain(b) \ {b} : A \in RegisteredOn(n) )
        => /\ \A n \in BackendIds \ {b} : backends'[n] = backends[n]
           /\ RegisteredOn(b)' = RegisteredOn(b) \cup {B}
           /\ \A i \in DOMAIN backends[b].class_entries :
                 ReplacedByAt(b, i)' \ ReplacedByAt(b, i) \subseteq
                    IF backends[b].class_entries[i].service_class \in ret'.replacing
                    THEN {B} ELSE {}
           /\ \A n \in ParentChain(b) \ {b} :
                 \A base_class \in QueryBases, model_name \in ModelNames :
                    get_service_class(n, base_class, model_name)'
                       = get_service_class(n, base_class, model_name)]_vars

\* B was registered with replacing=A on a child backend that does not hold A;
\* its parent holds A, replaced by nothing, and does not hold B.
C13_Witness ==
    /\ IsDecorated
    /\ backends[ret.backend].parent # 0
    /\ \E A \in ret.replacing :
          /\ A \notin RegisteredOn(ret.backend)
          /\ A \in RegisteredOn(backends[ret.backend].parent)
          /\ ReplacedBy(backends[ret.backend].parent, A) = {}
    /\ ret.result \notin RegisteredOn(backends[ret.backend].parent)
    /\ backends[ret.backend].class_entries =
           <<ConnectorUnitEntry(ret.result, <<>>)>>

\* ------------------------------------------- properties of the backend registry

\* The last call was Backend(...); ret holds its arguments and the backend
\* built or the error raised.
IsConstruct == ret.op = "Backend"

\* The last call was get_backend; ret holds its arguments and what it returned.
IsFind == ret.op = "get_backend"

\* The backend was built with this name (its own or its parent's) and version.
HasPair(b, name, version) ==
    backends[b].name = name /\ backends[b].version = version

\* C14: Backend() with neither a name nor a parent raises ValueError and adds
\* no backend to the registry; Backend() with a parent and no name builds a
\* backend with the name of the parent; every backend built is in the registry
\* after its construction.
C14_Construct ==
    [][ret'.op = "Backend" =>
        IF ret'.name = None /\ ret'.parent = 0
        THEN /\ ret'.result.kind = "ValueError"
             /\ backends' = backends
             /\ registry' = registry
        ELSE /\ ret'.result.kind = "Backend"
             /\ ret'.result.value = Len(backends) + 1
             /\ Len(backends') = Len(backends) + 1
             /\ \A b \in BackendIds : backends'[b] = backends[b]
             /\ registry' = registry \cup {ret'.result.value}
             /\ backends'[ret'.result.value].name =
                    IF ret'.name = None THEN backends[ret'.parent].name
                    ELSE ret'.name]_vars

\* Backend() has just raised ValueError for no name and no parent, while the
\* registry holds a backend and its child.
C14_Witness ==
    /\ IsConstruct
    /\ ret.name = None
    /\ ret.parent = 0
    /\ ret.result.kind = "ValueError"
    /\ \E b \in registry : backends[b].parent \in registry

C16_OnePerNameAndVersion ==
    \A b1 \in registry, b2 \in registry :
        HasPair(b1, backends[b2].name, backends[b2].version) => b1 = b2

\* --------------------------------------------------- properties of the event

\* The last call was has_consumer_for; ret holds its arguments and its result.
IsHasConsumerFor == ret.op = "has_consumer_for"

\* The last call was fire; ret holds its arguments and the calls it made.
IsFire == ret.op = "fire"

\* The consumers subscribed for a name (None: for every model) on the event
\* of the last call.
Subscribed(name) ==
    IF name \in DOMAIN consumers[ret.event]
    THEN consumers[ret.event][name] ELSE {}

\* The module that defines the consumer is installed.
ConsumerAvailable(consumer) ==
    consumer_odoo_module_name(consumer) \in installed

\* The consumers called by the last fire.
Invoked == {ret.calls[i].consumer : i \in DOMAIN ret.calls}

\* C17: has_consumer_for(model_name) is true exactly when a consumer of an
\* installed module is subscribed for None or for model_name; it is false
\* when every consumer subscribed there is of an uninstalled module.
C17_HasConsumerIffAvailable ==
    IsHasConsumerFor =>
        ( ret.result
          <=> \E consumer \in Subscribed(None) \cup Subscribed(ret.model_name) :
                 ConsumerAvailable(consumer) )

\* C18: fire calls a consumer subscribed for None or for the model name
\* exactly when the module of the consumer is installed, and so never calls a
\* consumer of an uninstalled module.
C18_FireOnlyAvailable ==
    IsFire =>
        \A consumer \in Subscribed(None) \cup Subscribed(ret.model_name) :
            consumer \in Invoked <=> ConsumerAvailable(consumer)

C20_WildcardFirst ==
    IsFire =>
        LET wildcard == Cardinality(Subscribed(None))
            scoped == Cardinality(Subscribed(ret.model_name))
        IN /\ Len(ret.calls) = wildcard + scoped
           /\ {ret.calls[i].consumer : i \in 1..wildcard} = Subscribed(None)
           /\ {ret.calls[i].consumer : i \in (wildcard + 1)..(wildcard + scoped)}
                 = Subscribed(ret.model_name)

\* The event was fired with two consumers for every model and two for the
\* model, one of them subscribed for both.
C20_Witness ==
    /\ IsFire
    /\ Cardinality(Subscribed(None)) = 2
    /\ Cardinality(Subscribed(ret.model_name)) = 2
    /\ Cardinality(Subscribed(None) \cup Subscribed(ret.model_name)) = 3
    /\ Len(ret.calls) = 4

\* The last call was subscribe; ret holds its arguments and the names it
\* removed `replacing` from.
IsSubscribe == ret.op = "subscribe"

\* The last call was unsubscribe; ret holds its arguments.
IsUnsubscribe == ret.op = "unsubscribe"

\* The names a consumer can be subscribed for.
Scopes == {None} \cup ModelNames

\* The consumers an outcome of fire called.
Called(outcome) == {outcome.calls[i].consumer : i \in DOMAIN outcome.calls}

\* What firing the event of the last call for a model name may do, in the
\* state reached, when every consumer returns.
WouldFire(model_name) ==
    UNION {fire_outcomes(ret.event, Session, model_name, payload, {})
           : payload \in Payloads}

\* The model names whose fire goes over the consumers of a name.
FiredFor(name) == IF name = None THEN ModelNames ELSE {name}

\* C21: after subscribe(B, model_names, replacing=A), with A another consumer
\* than B, A is subscribed for none of the names given and B for each of them;
\* firing the event for such a name (for any model name when the name is
\* None) calls B, and does not call A unless A is subscribed for the other
\* name that the fire goes over.
C21_ReplacedNotInvoked ==
    (IsSubscribe /\ ret.replacing # None /\ ret.replacing # ret.consumer) =>
        \A name \in ret.model_names :
            /\ ret.replacing \notin Subscribed(name)
            /\ ret.consumer \in Subscribed(name)
            /\ \A model_name \in FiredFor(name) :
                  \A outcome \in WouldFire(model_name) :
                     /\ ret.consumer \in Called(outcome)
                     /\ ret.replacing \notin
                            Subscribed(None) \cup Subscribed(model_name)
                        => ret.replacing \notin Called(outcome)

\* B was subscribed for a model name with replacing=A, which was subscribed
\* for that name and is subscribed for no name now, beside a third consumer.
C21_Witness ==
    /\ IsSubscribe
    /\ ret.replacing \notin {None, ret.consumer}
    /\ ret.replaced = ret.model_names
    /\ None \notin ret.model_names
    /\ \A name \in Scopes : ret.replacing \notin Subscribed(name)
    /\ \E name \in ret.model_names : Cardinality(Subscribed(name)) = 2

C23_UnsubscribeOnlyNamedScopes ==
    [][\A event \in Events :
        (ret'.op = "unsubscribe" /\ ret'.event = event) =>
            /\ ret'.result = None
            /\ DOMAIN consumers'[event] = DOMAIN consumers[event]
            /\ \A name \in DOMAIN consumers[event] :
                  consumers'[event][name] =
                     IF name \in ret'.model_names
                     THEN consumers[event][name] \ {ret'.consumer}
                     ELSE consumers[event][name]
            /\ (\A name \in ret'.model_names :
                   ret'.consumer \notin consumers_get(event, name))
               => consumers' = consumers
            /\ \A other \in Events \ {event} : consumers'[other] = consumers[other]
      ]_vars

\* A consumer was unsubscribed from a model name the event has no set for,
\* while it is subscribed for None and another consumer for another name.
C23_Witness ==
    /\ IsUnsubscribe
    /\ \E name \in ret.model_names : name \notin DOMAIN consumers[ret.event]
    /\ ret.consumer \in Subscribed(None)
    /\ \E name \in ModelNames : Subscribed(name) \ {ret.consumer} # {}

Subscriptions ==
    Cardinality(Subscribed(None)) + Cardinality(Subscribed(ret.model_name))

\* C25: when a consumer called by fire raises, fire makes no further call and
\* the exception of that consumer is what fire raises: the calls made end
\* with the first consumer that raises, every call before it returned, and
\* the consumers whose turn had not come are not called. When no consumer
\* called raises, every subscription is called and fire raises nothing.
C25_FailFast ==
    IsFire =>
        LET n == Len(ret.calls)
        IN /\ \A i \in 1..(n - 1) : ret.calls[i].consumer \notin ret.raising
           /\ n <= Subscriptions
           /\ IF n > 0 /\ ret.calls[n].consumer \in ret.raising
              THEN ret.raised = ConsumerError(ret.calls[n].consumer)
              ELSE ret.raised = NoError /\ n = Subscriptions

\* A fire whose second call raised, after a call that returned, and that left
\* a subscribed consumer without a call.
C25_Witness ==
    /\ IsFire
    /\ Len(ret.calls) = 2
    /\ ret.raised = ConsumerError(ret.calls[2].consumer)
    /\ ret.calls[1].consumer # ret.calls[2].consumer
    /\ (Subscribed(None) \cup Subscribed(ret.model_name)) \ Invoked # {}

\* The last call was a producer: create, write or unlink of a model.
IsProducer == ret.op \in {"create", "write", "unlink"}

\* The original method of the last producer returned.
OriginalReturned == IsProducer /\ ret.original = "returned"

\* The consumers an event is to call for the model of the last producer.
ToCall(event) == consumers_get(event, None) \cup consumers_get(event, ret.model)

\* The i-th fire of the last producer was made for the model and the id.
FiredWith(i, name, id) ==
    /\ \E j \in DOMAIN ret.fires[i] :
          ret.fires[i][j].type = "str" /\ ret.fires[i][j].value = name
    /\ \E j \in DOMAIN ret.fires[i] :
          ret.fires[i][j].type = "int" /\ ret.fires[i][j].value = id

\* A call of a consumer was given the model name, then the record.
CalledWithRecord(call, name, record) ==
    /\ Len(call.args) = 3
    /\ call.args[2] = name
    /\ call.args[3].type = "record" /\ call.args[3].value = record.value

\* C26: after the original write or unlink returned, the producer fires the
\* event once for each id, in order, when has_consumer_for is true for the
\* model, and does not call fire when it is false.
C26_FiresOncePerRecord ==
    (OriginalReturned /\ ret.op \in {"write", "unlink"}) =>
        IF has_consumer_for(producer_event(ret.op), Session, ret.model)
        THEN /\ Len(ret.fires) = Len(ret.ids)
             /\ \A i \in DOMAIN ret.fires : FiredWith(i, ret.model, ret.ids[i])
        ELSE ret.fires = <<>>

\* C27: a producer whose original method raises makes no fire and calls no
\* consumer; create, after its original method returned, makes one fire of
\* on_record_create that calls each consumer subscribed for None or for the
\* model once, with the model name and the record created.
C27_FiredAfterOriginal ==
    IsProducer =>
        /\ ret.original = "raised" => ret.fires = <<>> /\ ret.calls = <<>>
        /\ (ret.op = "create" /\ ret.original = "returned") =>
              /\ Len(ret.fires) = 1
              /\ \A consumer \in ToCall("on_record_create") :
                    \E i \in DOMAIN ret.calls :
                       /\ ret.calls[i].consumer = consumer
                       /\ CalledWithRecord(ret.calls[i], ret.model,
                                           a_record(ret.model, ret.ids[1]))

\* The last call was an event used as a decorator; ret holds the options of
\* subscribe it stands for, and the function returned.
IsEventDecorated == ret.op = "Event.__call__"

\* C28: a backend used as a decorator of a class, bare or as
\* backend(replacing=...), leaves the backend with the entries that
\* register_service_class(class, replacing) gives, leaves every other backend
\* as it was, and returns the class; an event used as a decorator of a
\* function, bare or with options, leaves the event with the consumers that
\* subscribe(function, **options) gives, and returns the function.
C28_DecoratorIsExplicitCall ==
    [][/\ \A b \in BackendIds :
            (ret'.op = "__call__" /\ ret'.backend = b) =>
                /\ backends'[b].class_entries =
                      register_entries(backends[b].class_entries, ret'.result,
                                       ret'.replacing)
                /\ \A other \in BackendIds \ {b} : backends'[other] = backends[other]
                /\ Len(backends') = Len(backends)
                /\ consumers' = consumers
       /\ \A event \in Events :
            (ret'.op = "Event.__call__" /\ ret'.event = event) =>
                /\ consumers'[event] =
                      subscribed(consumers[event], ret'.result,
                                 ret'.model_names, ret'.replacing)
                /\ ret'.bare => ret'.model_names = {None} /\ ret'.replacing = None
                /\ \A other \in Events \ {event} : consumers'[other] = consumers[other]
                /\ backends' = backends
      ]_vars

\* An event decorated a function with model_names and replacing given, and
\* the function took the place of the one replaced; a backend holds a class
\* registered by a decorator with replacing given.
C28_Witness ==
    /\ IsEventDecorated
    /\ ret.given = {"model_names", "replacing"}
    /\ None \notin ret.model_names
    /\ ret.replacing \notin {None, ret.result}
    /\ \A name \in ret.model_names :
          Subscribed(name) = {ret.result}
    /\ ret.replacing \in Subscribed(None)
    /\ \E b \in BackendIds : \E i \in DOMAIN backends[b].class_entries :
          backends[b].class_entries[i].replaced_by # <<>>

\* The last call was remove_service_class; ret holds its arguments, the
\* classes removed from the backend by it and the calls right before it, and
\* the exception it raised.
IsRemove == ret.op = "remove_service_class"

\* C29: after remove_service_class(X) on a backend, get_service_class on that
\* backend does not return X, for any base class and model name; after all
\* the classes registered on a backend without a parent have been removed
\* (as a class and the class that replaces it), get_service_class on it
\* returns None.
C29_RemovedNotResolved ==
    IsRemove =>
        \A base_class \in QueryBases, model_name \in ModelNames :
            LET found == get_service_class(ret.backend, base_class, model_name)
            IN /\ \A service_class \in ret.removed : found # Returned(service_class)
               /\ ( /\ backends[ret.backend].parent = 0
                    /\ \A i \in DOMAIN registered_classes(ret.backend) :
                          registered_classes(ret.backend)[i] \in ret.removed )
                  => found = NotFound

\* The class is in an entry of backend b.
HasEntry(b, service_class) ==
    \E i \in DOMAIN backends[b].class_entries :
        backends[b].class_entries[i].service_class = service_class

\* C30: registering on a backend, with replacing given, a class that the
\* backend already holds changes nothing: the entries of every backend and
\* their replaced_by are as before, also when a class named in replacing is
\* registered on the backend; the registry of backends and the installed
\* modules are as before too, so that everything get_service_class reads, and
\* with it what it gives, is as before the call.
C30_RegisteredAgainIsNoOp ==
    [][\A b \in BackendIds :
        ( /\ ret'.op = "__call__"
          /\ ret'.backend = b
          /\ HasEntry(b, ret'.result) )
        => /\ backends' = backends
           /\ registry' = registry
           /\ installed' = installed
      ]_vars

\* A class was registered with replacing naming another class of the backend
\* while the backend held it, before an entry registered later: the class
\* named is not replaced by it.
C30_Witness ==
    /\ IsDecorated
    /\ \E i, j, k \in DOMAIN backends[ret.backend].class_entries :
          /\ backends[ret.backend].class_entries[i].service_class = ret.result
          /\ i < j
          /\ k # i
          /\ backends[ret.backend].class_entries[k].service_class \in ret.replacing
          /\ ret.result \notin ReplacedByAt(ret.backend, k)

Outcomes == {Returned(cls) : cls \in Classes} \cup {NotFound, Ambiguous}

\* C32: in every state, each class in the replaced_by of an entry of a
\* backend has an entry in that backend, at a later place than the entry it
\* replaces; the parent of a backend was built before the backend; and
\* get_service_class ends, with a class, None or ConnectorUnitError, for
\* every backend, base class and model name.
C32_ReplacementGraphAcyclic ==
    \A b \in BackendIds :
        LET entries == backends[b].class_entries
        IN /\ \A i \in DOMAIN entries : \A cls \in ReplacedByAt(b, i) :
                 \E j \in DOMAIN entries :
                    j > i /\ entries[j].service_class = cls
           /\ backends[b].parent \in 0..(b - 1)
           /\ \A base_class \in QueryBases, model_name \in ModelNames :
                 get_service_class(b, base_class, model_name) \in Outcomes

\* get_service_class was called on a backend that has a parent and holds a
\* class replaced by a class that is itself replaced, and returned a class.
C32_Witness ==
    /\ IsCall
    /\ backends[ret.backend].parent # 0
    /\ ret.result.kind = "class"
    /\ \E i, j \in DOMAIN backends[ret.backend].class_entries :
          /\ i < j
          /\ backends[ret.backend].class_entries[j].service_class
                \in ReplacedByAt(ret.backend, i)
          /\ ReplacedByAt(ret.backend, j) # {}

\* C33: get_service_class, whether it returns a class or None or raises
\* ConnectorUnitError, and get_backend leave the backends (their entries,
\* replaced_by and parents), the registry of backends, the installed modules
\* and the consumers as they were; get_service_class called again with the
\* same arguments right after gives the same outcome.
C33_LookupsReadOnly ==
    [][/\ ret'.op \in {"get_service_class", "get_backend"} =>
            /\ backends' = backends
            /\ registry' = registry
            /\ installed' = installed
            /\ consumers' = consumers
       /\ ( /\ ret.op = "get_service_class"
            /\ ret'.op = "get_service_class"
            /\ ret'.backend = ret.backend
            /\ ret'.base_class = ret.base_class
            /\ ret'.model_name = ret.model_name )
          => ret'.result = ret.result
      ]_vars

\* get_service_class raised ConnectorUnitError on a backend that holds a class
\* replaced by another, and all the backends built are in the registry.
C33_Witness ==
    /\ IsCall
    /\ ret.result = Ambiguous
    /\ \E i \in DOMAIN backends[ret.backend].class_entries :
          ReplacedByAt(ret.backend, i) # {}
    /\ registry = BackendIds

\* A register_service_class that ran statement by statement has returned;
\* ret holds what get_service_class gave before it and the lookup made
\* meanwhile.
IsRegistered == ret.op = "registered"

\* The lookup made during the last registration gave what get_service_class
\* gave before the registration, or what it gives after it.
BeforeOrAfter(seen) ==
    \/ seen.result = ret.before[seen.query]
    \/ seen.result = get_service_class(ret.backend, seen.query[1], seen.query[2])

\* C34 (as claimed): a get_service_class that runs between the statements of
\* register_service_class(B, replacing=[A, A2]) gives what it gives before
\* the registration or what it gives after it.
C34_RegistrationAtomic ==
    IsRegistered => \A i \in DOMAIN ret.seen : BeforeOrAfter(ret.seen[i])

\* C34 (amended): a get_service_class that runs before register_service_class
\* has added the new entry to any replaced_by gives what it gave before the
\* registration; one that runs when every entry of a class named holds the
\* new entry in its replaced_by gives what it gives after the registration;
\* in every case it ends with a class, None or ConnectorUnitError.
C34_RegistrationStepwise ==
    IsRegistered =>
        \A i \in DOMAIN ret.seen :
            LET seen == ret.seen[i]
            IN /\ seen.result \in Outcomes
               /\ seen.added = 0 => seen.result = ret.before[seen.query]
               /\ (seen.added = seen.total /\ seen.total > 0) =>
                     seen.result = get_service_class(ret.backend, seen.query[1],
                                                     seen.query[2])

\* A lookup that ran when one of the two entries named held the new entry in
\* its replaced_by raised ConnectorUnitError, while get_service_class gave a
\* class before the registration and gives another class after it.
C34_Witness ==
    /\ IsRegistered
    /\ Len(ret.seen) = 1
    /\ ret.seen[1].added = 1
    /\ ret.seen[1].total = 2
    /\ ret.seen[1].result = Ambiguous
    /\ ret.before[ret.seen[1].query].kind = "class"
    /\ get_service_class(ret.backend, ret.seen[1].query[1],
                         ret.seen[1].query[2]).kind = "class"

\* A subscribe that ran statement by statement has returned; ret holds the
\* dictionary of the event before it and the fire made meanwhile.
IsSubscribed == ret.op = "subscribed"

\* The last subscribe put its consumer, subscribed for nothing the fire goes
\* over before, in the place of another consumer that was subscribed for the
\* model name fired and not for None, for names that hold that model name.
ReplacedFor(model_name) ==
    /\ ret.replacing \notin {None, ret.consumer}
    /\ model_name \in ret.model_names
    /\ ret.replacing \in dict_get(ret.before, model_name)
    /\ ret.replacing \notin dict_get(ret.before, None)
    /\ ret.consumer \notin
          dict_get(ret.before, None) \cup dict_get(ret.before, model_name)

TimesCalled(consumer) ==
    Cardinality({i \in DOMAIN ret.calls : ret.calls[i].consumer = consumer})

\* The number of the names a fire for the model name goes over that the
\* consumer is subscribed for, on the event of the last call.
TimesSubscribed(consumer, model_name) ==
    Cardinality({name \in {None, model_name} : consumer \in Subscribed(name)})

C37_HasConsumerAgreesWithFire ==
    /\ IsHasConsumerFor =>
          /\ WouldFire(ret.model_name) # {}
          /\ \A outcome \in WouldFire(ret.model_name) :
                ret.result <=> Len(outcome.calls) > 0
    /\ IsFire =>
          (Len(ret.calls) > 0
              <=> has_consumer_for(ret.event, ret.session, ret.model_name))

\* has_consumer_for was true for a model name that only consumers of that
\* name, and none of None, are subscribed for, while it is false for the
\* other model name.
C37_Witness ==
    /\ IsHasConsumerFor
    /\ ret.result = TRUE
    /\ Subscribed(None) = {}
    /\ Subscribed(ret.model_name) # {}
    /\ \E other \in ModelNames \ {ret.model_name} :
          /\ Subscribed(other) = {}
          /\ ~has_consumer_for(ret.event, ret.session, other)

\* The dictionary of an event holds the same for a name before and after a
\* step: the name is a key of both or of neither, with the same consumers.
SameScope(event, name) ==
    /\ (name \in DOMAIN consumers'[event]) <=> (name \in DOMAIN consumers[event])
    /\ consumers_get(event, name)' = consumers_get(event, name)

\* C38: subscribe and unsubscribe leave the consumers of every name they are
\* not given, and of every name of every other event, as they were; a
\* subscribe without replacing of a consumer already subscribed for a name
\* leaves the set of that name as it was, and a fire calls a consumer once for
\* each of None and the model name that it is subscribed for; None is a key of
\* the dictionary of every event in every state.
C38_OnlyNamedScopesChange ==
    /\ [][ret'.op \in {"subscribe", "unsubscribe"} =>
            \A event \in Events, name \in Scopes :
               /\ (event # ret'.event \/ name \notin ret'.model_names)
                     => SameScope(event, name)
               /\ (/\ event = ret'.event
                   /\ name \in ret'.model_names
                   /\ ret'.op = "subscribe"
                   /\ ret'.replacing \in {None, ret'.consumer}
                   /\ ret'.consumer \in consumers_get(event, name))
                     => SameScope(event, name)]_vars
    /\ [](IsFire =>
             \A consumer \in Consumers :
                 TimesCalled(consumer) \in {0, 1, 2}
                 /\ TimesCalled(consumer)
                       = TimesSubscribed(consumer, ret.model_name))
    /\ [](\A event \in Events : None \in DOMAIN consumers[event])

\* A subscribe has left its consumer in a set of two for a model name on an
\* event where the other model name has one consumer, while the other events
\* hold other consumers for the same names.
C38_Witness ==
    /\ IsSubscribe
    /\ \E name \in ret.model_names \cap ModelNames,
          other \in ModelNames \ ret.model_names :
          /\ Cardinality(Subscribed(name)) = 2
          /\ Cardinality(Subscribed(other)) = 1
          /\ \E event \in TwoEvents \ {ret.event} :
                /\ Cardinality(consumers_get(event, name)) = 1
                /\ Cardinality(consumers_get(event, None)) = 2
                /\ other \notin DOMAIN consumers[event]

\* C39: has_consumer_for and fire leave the dictionary of every event as it
\* was, with the same keys and the same consumers for each, whether the fire
\* returns or a consumer raises; a model name fired that was not a key is not
\* one afterwards.
C39_QueriesLeaveSubscriptions ==
    [][ret'.op \in {"has_consumer_for", "fire"} =>
          /\ consumers' = consumers
          /\ \A event \in Events :
                /\ DOMAIN consumers'[event] = DOMAIN consumers[event]
                /\ \A name \in Scopes : SameScope(event, name)]_vars

\* A fire for a model name that is not a key of the dictionary called a
\* consumer of None that raised, and the model name still is not a key.
C39_Witness ==
    /\ IsFire
    /\ ret.raised.error # None
    /\ Len(ret.calls) > 0
    /\ ret.model_name \notin DOMAIN consumers[ret.event]
    /\ Cardinality(Subscribed(None)) = 2

\* The last call was get_connector_unit; ret holds the environment, the base
\* class, the instance returned and the exception raised.
IsGetConnectorUnit == ret.op = "get_connector_unit"

====
